---- MODULE Spec2Model ----
(***************************************************************************)
(* Finance tracker: the keyword classifier of src/categories.py and the    *)
(* ingestion, normalisation and export code of src/app.py.                 *)
(*                                                                         *)
(* Text is a sequence of one-character strings, so that lower-casing and   *)
(* substring search are computed and not assumed.  Amounts are integers    *)
(* (cents).                                                                *)
(***************************************************************************)
EXTENDS Integers, Sequences, FiniteSets, TLC

(***************************************************************************)
(* Python and pandas values.  A value is None, a missing cell (NaN / NaT), *)
(* a str or a number.                                                      *)
(***************************************************************************)
None == [k |-> "none", s |-> <<>>, n |-> 0]

NaN == [k |-> "nan", s |-> <<>>, n |-> 0]

Str(s) == [k |-> "str", s |-> s, n |-> 0]

Num(n) == [k |-> "num", s |-> <<>>, n |-> n]

\* A str that is one of the program's own labels (a category name, "Income" /
\* "Expense"), kept by name.
Label(name) == [k |-> "label", s |-> <<>>, n |-> 0, name |-> name]

UpperLetters == <<"A", "B", "C", "D", "E", "F", "G", "H", "I", "J", "K", "L", "M",
                  "N", "O", "P", "Q", "R", "S", "T", "U", "V", "W", "X", "Y", "Z">>

LowerLetters == <<"a", "b", "c", "d", "e", "f", "g", "h", "i", "j", "k", "l", "m",
                  "n", "o", "p", "q", "r", "s", "t", "u", "v", "w", "x", "y", "z">>

UpperToLower ==
    [c \in {UpperLetters[i] : i \in DOMAIN UpperLetters} |->
        LowerLetters[CHOOSE i \in DOMAIN UpperLetters : UpperLetters[i] = c]]

\* str.lower(): upper-case letters map to lower case, everything else stays.
lower(s) ==
    [i \in 1..Len(s) |-> IF s[i] \in DOMAIN UpperToLower THEN UpperToLower[s[i]] ELSE s[i]]

\* Python's `keyword in search_text`: keyword is a contiguous slice of text.
Contains(text, keyword) ==
    \E i \in 1..(Len(text) - Len(keyword) + 1) :
        SubSeq(text, i, i + Len(keyword) - 1) = keyword

\* The decimal digits of a natural number, as text.
RECURSIVE Digits(_)
Digits(n) ==
    LET d == <<"0", "1", "2", "3", "4", "5", "6", "7", "8", "9">>[(n % 10) + 1]
    IN  IF n < 10 THEN <<d>> ELSE Digits(n \div 10) \o <<d>>

\* str(x) as process_data applies it to a cell: a missing cell reads "nan".
pystr(x) ==
    CASE x.k = "str" -> x.s
      [] x.k = "nan" -> <<"n", "a", "n">>
      [] x.k = "none" -> <<"N", "o", "n", "e">>
      [] x.k = "num" -> IF x.n < 0 THEN <<"-">> \o Digits(-x.n) ELSE Digits(x.n)

\* Python truthiness of an argument that is a str or None.
truthy(x) == x.k = "str" /\ x.s # <<>>

\* `x or ''`
or_empty(x) == IF truthy(x) THEN x.s ELSE <<>>

(***************************************************************************)
(* The rule table, in the key order of the dict literal.                   *)
(***************************************************************************)
CATEGORIES ==
    << [category |-> "Transport", keywords |-> <<
         <<"u", "b", "e", "r">>,
         <<"l", "i", "m", "e">>,
         <<"f", "u", "e", "l">>,
         <<"z", " ", "e", "n", "e", "r", "g", "y">>,
         <<"b", "p">>,
         <<"c", "a", "l", "t", "e", "x">>,
         <<"m", "o", "b", "i", "l">>,
         <<"t", "a", "x", "i">>,
         <<"a", "t", " ", "h", "o", "p">>,
         <<"b", "u", "s">>,
         <<"t", "r", "a", "i", "n">> >>],
       [category |-> "Groceries", keywords |-> <<
         <<"c", "o", "u", "n", "t", "d", "o", "w", "n">>,
         <<"p", "a", "k", " ", "n", " ", "s", "a", "v", "e">>,
         <<"n", "e", "w", " ", "w", "o", "r", "l", "d">>,
         <<"s", "u", "p", "e", "r", "m", "a", "r", "k", "e", "t">>,
         <<"w", "o", "o", "l", "w", "o", "r", "t", "h", "s">>,
         <<"f", "r", "e", "s", "h", " ", "c", "h", "o", "i", "c", "e">>,
         <<"f", "o", "u", "r", " ", "s", "q", "u", "a", "r", "e">> >>],
       [category |-> "Insurance", keywords |-> <<
         <<"i", "n", "s", "u", "r", "a", "n", "c", "e">>,
         <<"t", "o", "w", "e", "r">>,
         <<"s", "t", "a", "t", "e">>,
         <<"a", "i", "a">>,
         <<"s", "o", "u", "t", "h", "e", "r", "n", " ", "c", "r", "o", "s", "s">>,
         <<"n", "i", "b">>,
         <<"r", "d", "i", " ", "f", "i", "n", "a", "n", "c", "e">>,
         <<"r", "d", "l", " ", "p", "r", "e", "m", "i", "u", "m", " ", "f", "i", "n", "a", "n", "c", "e">> >>],
       [category |-> "Investments", keywords |-> <<
         <<"s", "h", "a", "r", "e", "s", "i", "e", "s">>,
         <<"h", "a", "t", "c", "h">>,
         <<"i", "n", "v", "e", "s", "t", "n", "o", "w">>,
         <<"s", "m", "a", "r", "t", "s", "h", "a", "r", "e", "s">>,
         <<"s", "i", "m", "p", "l", "i", "c", "i", "t", "y">> >>],
       [category |-> "Utilities", keywords |-> <<
         <<"p", "o", "w", "e", "r">>,
         <<"e", "l", "e", "c", "t", "r", "i", "c">>,
         <<"w", "a", "t", "e", "r">>,
         <<"i", "n", "t", "e", "r", "n", "e", "t">>,
         <<"v", "o", "d", "a", "f", "o", "n", "e">>,
         <<"s", "p", "a", "r", "k">>,
         <<"2", "d", "e", "g", "r", "e", "e", "s">>,
         <<"m", "e", "r", "c", "u", "r", "y">>,
         <<"g", "e", "n", "e", "s", "i", "s">>,
         <<"c", "o", "n", "t", "a", "c", "t", " ", "e", "n", "e", "r", "g", "y">>,
         <<"s", "l", "i", "n", "g", "s", "h", "o", "t">> >>],
       [category |-> "Entertainment", keywords |-> <<
         <<"n", "e", "t", "f", "l", "i", "x">>,
         <<"s", "p", "o", "t", "i", "f", "y">>,
         <<"d", "i", "s", "n", "e", "y">>,
         <<"a", "p", "p", "l", "e", " ", "m", "u", "s", "i", "c">>,
         <<"y", "o", "u", "t", "u", "b", "e">>,
         <<"c", "i", "n", "e", "m", "a">>,
         <<"m", "o", "v", "i", "e">>,
         <<"t", "i", "c", "k", "e", "t", "m", "a", "s", "t", "e", "r">> >>],
       [category |-> "Dining", keywords |-> <<
         <<"r", "e", "s", "t", "a", "u", "r", "a", "n", "t">>,
         <<"c", "a", "f", "e">>,
         <<"m", "c", "d", "o", "n", "a", "l", "d">>,
         <<"u", "b", "e", "r", " ", "e", "a", "t", "s">>,
         <<"m", "e", "n", "u", "l", "o", "g">>,
         <<"d", "e", "l", "i", "v", "e", "r", "e", "a", "s", "y">>,
         <<"b", "u", "r", "g", "e", "r">>,
         <<"p", "i", "z", "z", "a">>,
         <<"k", "f", "c">>,
         <<"w", "e", "n", "d", "y">> >>],
       [category |-> "Pet", keywords |-> <<
         <<"d", "o", "g">>,
         <<"v", "e", "t">>,
         <<"p", "e", "t">>,
         <<"a", "n", "i", "m", "a", "t", "e", "s">>,
         <<"p", "e", "t", "s", "t", "o", "c", "k">> >>],
       [category |-> "Healthcare", keywords |-> <<
         <<"p", "h", "a", "r", "m", "a", "c", "y">>,
         <<"c", "h", "e", "m", "i", "s", "t">>,
         <<"d", "o", "c", "t", "o", "r">>,
         <<"m", "e", "d", "i", "c", "a", "l">>,
         <<"h", "o", "s", "p", "i", "t", "a", "l">>,
         <<"d", "e", "n", "t", "i", "s", "t">>,
         <<"o", "p", "t", "o", "m", "e", "t", "r", "i", "s", "t">> >>],
       [category |-> "Shopping", keywords |-> <<
         <<"a", "m", "a", "z", "o", "n">>,
         <<"w", "a", "r", "e", "h", "o", "u", "s", "e">>,
         <<"k", "m", "a", "r", "t">>,
         <<"t", "a", "r", "g", "e", "t">>,
         <<"f", "a", "r", "m", "e", "r", "s">>,
         <<"b", "r", "i", "s", "c", "o", "e", "s">>,
         <<"r", "e", "b", "e", "l", " ", "s", "p", "o", "r", "t">> >>],
       [category |-> "Subscriptions", keywords |-> <<
         <<"s", "u", "b", "s", "c", "r", "i", "p", "t", "i", "o", "n">>,
         <<"m", "o", "n", "t", "h", "l", "y">>,
         <<"a", "n", "n", "u", "a", "l", " ", "f", "e", "e">>,
         <<"m", "e", "m", "b", "e", "r", "s", "h", "i", "p">> >>],
       [category |-> "Education", keywords |-> <<
         <<"s", "c", "h", "o", "o", "l">>,
         <<"u", "n", "i", "v", "e", "r", "s", "i", "t", "y">>,
         <<"c", "o", "u", "r", "s", "e">>,
         <<"t", "u", "i", "t", "i", "o", "n">>,
         <<"b", "o", "o", "k">> >>],
       [category |-> "Holiday", keywords |-> <<
         <<"h", "o", "l", "i", "d", "a", "y">> >>] >>

txt_deposit == <<"d", "e", "p", "o", "s", "i", "t">>

txt_loan_payment == <<"l", "o", "a", "n", " ", "p", "a", "y", "m", "e", "n", "t">>

\* Mutant: the last matching category of the table wins, not the first.
scan_categories_last_wins(search_text, c) ==
    LET hits == {i \in c..Len(CATEGORIES) :
                    \E k \in DOMAIN CATEGORIES[i].keywords :
                        Contains(search_text, lower(CATEGORIES[i].keywords[k]))}
    IN  IF hits = {} THEN "Other"
        ELSE CATEGORIES[CHOOSE i \in hits : \A j \in hits : j <= i].category

\* The inner loop `for keyword in keywords`: some keyword is in the text.
keyword_found(search_text, keywords) ==
    \E k \in DOMAIN keywords : Contains(search_text, lower(keywords[k]))

\* The outer loop `for category, keywords in CATEGORIES.items()` from the
\* c-th key on: the first category with a keyword in the text is returned,
\* and "Other" when the table is exhausted.
RECURSIVE scan_categories(_, _)
scan_categories(search_text, c) ==
    IF c > Len(CATEGORIES) THEN "Other"
    ELSE IF keyword_found(search_text, CATEGORIES[c].keywords) THEN CATEGORIES[c].category
    ELSE scan_categories(search_text, c + 1)

\* Mutant: the deposit test compares the type as written, without lower().
categorize_transaction_exact_case(details, particulars, transaction_type) ==
    IF truthy(transaction_type) /\ transaction_type.s = txt_deposit
    THEN "Income"
    ELSE IF truthy(transaction_type) /\ lower(transaction_type.s) = txt_loan_payment
    THEN "Mortgage"
    ELSE scan_categories(lower(or_empty(details) \o <<" ">> \o or_empty(particulars)), 1)

\* Mutant: the keyword scan runs first, the loan payment test only when no
\* keyword is found.
categorize_transaction_scan_first(details, particulars, transaction_type) ==
    LET scanned == scan_categories(lower(or_empty(details) \o <<" ">> \o or_empty(particulars)), 1)
    IN  IF truthy(transaction_type) /\ lower(transaction_type.s) = txt_deposit
        THEN "Income"
        ELSE IF scanned # "Other" THEN scanned
        ELSE IF truthy(transaction_type) /\ lower(transaction_type.s) = txt_loan_payment
        THEN "Mortgage"
        ELSE "Other"

\* Mutant: the search text is not lower-cased.
categorize_transaction_no_lower(details, particulars, transaction_type) ==
    IF truthy(transaction_type) /\ lower(transaction_type.s) = txt_deposit
    THEN "Income"
    ELSE IF truthy(transaction_type) /\ lower(transaction_type.s) = txt_loan_payment
    THEN "Mortgage"
    ELSE scan_categories(or_empty(details) \o <<" ">> \o or_empty(particulars), 1)

categorize_transaction(details, particulars, transaction_type) ==
    IF truthy(transaction_type) /\ lower(transaction_type.s) = txt_deposit
    THEN "Income"
    ELSE IF truthy(transaction_type) /\ lower(transaction_type.s) = txt_loan_payment
    THEN "Mortgage"
    ELSE scan_categories(lower(or_empty(details) \o <<" ">> \o or_empty(particulars)), 1)

get_category_list ==
    [i \in 1..Len(CATEGORIES) |-> CATEGORIES[i].category] \o <<"Income", "Mortgage", "Other">>

(***************************************************************************)
(* Sample text.                                                            *)
(***************************************************************************)
w_Uber == <<"U", "b", "e", "r">>

w_Eats == <<"E", "a", "t", "s">>

w_BP == <<"B", "P">>

w_Z == <<"z">>

w_Energy == <<"e", "n", "e", "r", "g", "y">>

w_BOOK == <<"B", "O", "O", "K">>

w_Joint == <<"J", "o", "i", "n", "t">>

w_Random == <<"R", "a", "n", "d", "o", "m">>

w_Countdown == <<"C", "o", "u", "n", "t", "d", "o", "w", "n">>

w_Netflix == <<"N", "e", "t", "f", "l", "i", "x">>

t_deposit == <<"d", "e", "p", "o", "s", "i", "t">>

t_Deposit == <<"D", "e", "p", "o", "s", "i", "t">>

t_DEPOSIT == <<"D", "E", "P", "O", "S", "I", "T">>

t_loan_payment == <<"l", "o", "a", "n", " ", "p", "a", "y", "m", "e", "n", "t">>

t_Loan_Payment == <<"L", "o", "a", "n", " ", "P", "a", "y", "m", "e", "n", "t">>

t_LOAN_PAYMENT == <<"L", "O", "A", "N", " ", "P", "A", "Y", "M", "E", "N", "T">>

t_Payment == <<"P", "a", "y", "m", "e", "n", "t">>

t_Deposits == <<"D", "e", "p", "o", "s", "i", "t", "s">>

t_TFR_IN == <<"T", "F", "R", " ", "I", "N">>

t_TFR_OUT == <<"T", "F", "R", " ", "O", "U", "T">>

(***************************************************************************)
(* Text of the sample statements.                                          *)
(***************************************************************************)
x_Countdown_Queen_St == <<"C", "o", "u", "n", "t", "d", "o", "w", "n", " ", "Q", "u", "e", "e", "n", " ", "S", "t">>

x_Transfer == <<"T", "r", "a", "n", "s", "f", "e", "r">>

x_Joint_account == <<"J", "o", "i", "n", "t", " ", "a", "c", "c", "o", "u", "n", "t">>

x_Random_Merchant_XYZ == <<"R", "a", "n", "d", "o", "m", " ", "M", "e", "r", "c", "h", "a", "n", "t", " ", "X", "Y", "Z">>

x_Uber_Eats == <<"U", "b", "e", "r", " ", "E", "a", "t", "s">>

x_I_bought_a_BOOK == <<"I", " ", "b", "o", "u", "g", "h", "t", " ", "a", " ", "B", "O", "O", "K">>

x_Holiday == <<"H", "o", "l", "i", "d", "a", "y">>

x_not_a_number == <<"n", "/", "a">>

x_2024_01_15 == <<"2", "0", "2", "4", "-", "0", "1", "-", "1", "5">>

x_2024_02_03 == <<"2", "0", "2", "4", "-", "0", "2", "-", "0", "3">>

x_15_13_2024 == <<"1", "5", "/", "1", "3", "/", "2", "0", "2", "4">>

x_NaT == <<"N", "a", "T">>

n_jan_xlsx == <<"j", "a", "n", ".", "x", "l", "s", "x">>

n_feb_xlsx == <<"f", "e", "b", ".", "x", "l", "s", "x">>

n_old_xlsx == <<"o", "l", "d", ".", "x", "l", "s", "x">>

n_mar_csv == <<"m", "a", "r", ".", "c", "s", "v">>

n_bad_csv == <<"b", "a", "d", ".", "c", "s", "v">>

\* The uploader takes an extension in any letter case.
n_dec_XLSX == <<"d", "e", "c", ".", "X", "L", "S", "X">>

ext_xlsx == <<".", "x", "l", "s", "x">>

ext_csv == <<".", "c", "s", "v">>

(***************************************************************************)
(* The rows sample statements are made of, by canonical field.             *)
(***************************************************************************)
grocery_row ==
    [date |-> Str(x_2024_01_15), description |-> Str(x_Countdown_Queen_St), memo |-> NaN,
     amount |-> Num(-4520), type |-> Str(t_Payment)]

deposit_row ==
    [date |-> Str(x_2024_02_03), description |-> NaN, memo |-> NaN,
     amount |-> Num(250000), type |-> Str(t_Deposit)]

blank_row ==
    [date |-> NaN, description |-> NaN, memo |-> NaN, amount |-> NaN, type |-> NaN]

transfer_row ==
    [date |-> Str(x_2024_01_15), description |-> Str(x_Transfer), memo |-> Str(x_Joint_account),
     amount |-> Num(10000), type |-> Str(t_TFR_IN)]

no_amount_row ==
    [date |-> Str(x_2024_02_03), description |-> Str(x_Random_Merchant_XYZ),
     memo |-> Str(x_Joint_account), amount |-> NaN, type |-> Str(t_Payment)]

zero_row ==
    [date |-> Str(x_15_13_2024), description |-> Str(x_Uber_Eats), memo |-> NaN,
     amount |-> Num(0), type |-> Str(t_DEPOSIT)]

text_amount_row ==
    [date |-> Str(x_2024_01_15), description |-> Str(x_I_bought_a_BOOK), memo |-> NaN,
     amount |-> Str(x_not_a_number), type |-> Str(t_Payment)]

mortgage_row ==
    [date |-> NaN, description |-> Str(x_Uber_Eats), memo |-> Str(x_Holiday),
     amount |-> Num(-120000), type |-> Str(t_Loan_Payment)]

\* The sample rows by name: a statement lists its rows by these names.
RowPool ==
    [grocery |-> grocery_row, deposit |-> deposit_row, blank |-> blank_row,
     transfer |-> transfer_row, no_amount |-> no_amount_row, zero |-> zero_row,
     text_amount |-> text_amount_row, mortgage |-> mortgage_row]

\* The canonical field a column of a statement holds, for both shapes.
column_field ==
    ("Transaction Date" :> "date") @@ ("Details" :> "description")
        @@ ("Particulars" :> "memo") @@ ("Amount" :> "amount") @@ ("Type" :> "type")
        @@ ("Date" :> "date") @@ ("Payee" :> "description") @@ ("Memo" :> "memo")
        @@ ("Tran Type" :> "type")

\* The table an uploaded file holds below its header (and, for a csv, below
\* its preamble): its rows' cells under its own column names.
cells_of(uploaded_file) ==
    [i \in DOMAIN uploaded_file.rows |->
        [c \in uploaded_file.columns |-> RowPool[uploaded_file.rows[i]][column_field[c]]]]

\* The texts str() can give for a field of a sample row, a missing cell ("nan")
\* and an absent column ("") included.
FieldTexts(field) ==
    {pystr(RowPool[r][field]) : r \in DOMAIN RowPool} \cup {<<>>, pystr(NaN)}

\* categorize_transaction on the sample texts, evaluated once.
categorize_memo ==
    [d \in FieldTexts("description") |->
        [m \in FieldTexts("memo") |->
            [t \in FieldTexts("type") |-> categorize_transaction(Str(d), Str(m), Str(t))]]]

\* The call of categorize_transaction in process_data.
categorize(description, memo, tran_type) ==
    IF /\ description.s \in FieldTexts("description")
       /\ memo.s \in FieldTexts("memo")
       /\ tran_type.s \in FieldTexts("type")
    THEN categorize_memo[description.s][memo.s][tran_type.s]
    ELSE categorize_transaction(description, memo, tran_type)

(***************************************************************************)
(* Frames.  A DataFrame is its set of column names and its rows in order,  *)
(* each row a function from the column names to cells.  An uploaded file   *)
(* is its name and the table its sheet or its lines (after the preamble)   *)
(* hold.                                                                   *)
(***************************************************************************)
EmptyFrame == [columns |-> {}, rows |-> <<>>]

\* str.endswith
endswith(name, suffix) ==
    /\ Len(name) >= Len(suffix)
    /\ SubSeq(name, Len(name) - Len(suffix) + 1, Len(name)) = suffix

\* An amount of n cents as the text a statement holds, e.g. -45.20.
amount_text(n) ==
    LET a == IF n < 0 THEN -n ELSE n
        cents == Digits(a % 100)
    IN  (IF n < 0 THEN <<"-">> ELSE <<>>) \o Digits(a \div 100) \o <<".">>
            \o (IF Len(cents) = 1 THEN <<"0">> ELSE <<>>) \o cents

\* pd.read_excel: every row of the sheet below the header, empty rows between
\* data rows included; each cell keeps its own type.
read_excel(uploaded_file) ==
    [columns |-> uploaded_file.columns, rows |-> cells_of(uploaded_file)]

\* pd.read_csv(skiprows=5): a column is numeric only if every value in it
\* parses; one unparseable amount leaves every amount of the file as text.
read_csv(uploaded_file) ==
    LET raw == cells_of(uploaded_file)
        textual ==
            /\ "Amount" \in uploaded_file.columns
            /\ \E i \in DOMAIN raw : raw[i]["Amount"].k = "str"
        cell(r, c) ==
            IF c = "Amount" /\ textual /\ r[c].k = "num" THEN Str(amount_text(r[c].n)) ELSE r[c]
    IN  [columns |-> uploaded_file.columns,
         rows |-> [i \in DOMAIN raw |-> [c \in uploaded_file.columns |-> cell(raw[i], c)]]]

\* df.dropna(how='all')
dropna_all(frame) ==
    [frame EXCEPT !.rows = SelectSeq(frame.rows, LAMBDA r : \E c \in frame.columns : r[c].k # "nan")]

\* df.rename(columns=mapping): names absent from the frame are ignored.
rename(frame, mapping) ==
    LET new(c) == IF c \in DOMAIN mapping THEN mapping[c] ELSE c
        cols == {new(c) : c \in frame.columns}
        old(c2) == CHOOSE c \in frame.columns : new(c) = c2
    IN  [columns |-> cols,
         rows |-> [i \in DOMAIN frame.rows |-> [c2 \in cols |-> frame.rows[i][old(c2)]]]]

\* df[col] = values: the column is added, or overwritten, with one value
\* for each row.
set_column(frame, col, values) ==
    [columns |-> frame.columns \cup {col},
     rows |-> [i \in DOMAIN frame.rows |->
                  [c \in frame.columns \cup {col} |->
                      IF c = col THEN values[i] ELSE frame.rows[i][c]]]]

\* row.get(col, "")
row_get(row, col) == IF col \in DOMAIN row THEN row[col] ELSE Str(<<>>)

xlsx_required_columns == <<"Transaction Date", "Details", "Amount">>

csv_required_columns == <<"Date", "Payee", "Amount">>

xlsx_rename ==
    ("Transaction Date" :> "Date") @@ ("Details" :> "Description")
        @@ ("Particulars" :> "Memo") @@ ("Type" :> "Tran Type")

csv_rename == ("Payee" :> "Description") @@ ("Tran Type" :> "Tran Type")

\* st.error(f"Missing required columns in {name}: {missing}")
missing_columns_error(name, missing) == [level |-> "error", file |-> name, missing |-> missing]

\* st.warning(f"Unsupported file type: {name}")
unsupported_warning(name) == [level |-> "warning", file |-> name, missing |-> <<>>]

\* load_xlsx: ok is FALSE for the None it returns on missing columns.
load_xlsx(uploaded_file) ==
    LET frame == read_excel(uploaded_file)
        missing == SelectSeq(xlsx_required_columns, LAMBDA col : col \notin frame.columns)
    IN  IF missing # <<>>
        THEN [ok |-> FALSE, df |-> EmptyFrame,
              messages |-> <<missing_columns_error(uploaded_file.name, missing)>>]
        ELSE [ok |-> TRUE, df |-> rename(frame, xlsx_rename), messages |-> <<>>]

load_csv(uploaded_file) ==
    LET frame == dropna_all(read_csv(uploaded_file))
        missing == SelectSeq(csv_required_columns, LAMBDA col : col \notin frame.columns)
    IN  IF missing # <<>>
        THEN [ok |-> FALSE, df |-> EmptyFrame,
              messages |-> <<missing_columns_error(uploaded_file.name, missing)>>]
        ELSE [ok |-> TRUE, df |-> rename(frame, csv_rename), messages |-> <<>>]

RECURSIVE load_files(_, _, _)

\* Mutant: the loop ends at the first file that is not loaded (break, not
\* continue).
load_files_stop_at_rejected(files, all_dfs, shown) ==
    IF files = <<>> THEN [all_dfs |-> all_dfs, messages |-> shown]
    ELSE
        LET uploaded_file == Head(files)
            loaded ==
                IF endswith(uploaded_file.name, ext_xlsx) THEN load_xlsx(uploaded_file)
                ELSE IF endswith(uploaded_file.name, ext_csv) THEN load_csv(uploaded_file)
                ELSE [ok |-> FALSE, df |-> EmptyFrame,
                      messages |-> <<unsupported_warning(uploaded_file.name)>>]
            tagged == set_column(loaded.df, "Source",
                                 [i \in DOMAIN loaded.df.rows |-> Str(uploaded_file.name)])
        IN  IF loaded.ok
            THEN load_files(Tail(files), Append(all_dfs, tagged), shown \o loaded.messages)
            ELSE [all_dfs |-> all_dfs, messages |-> shown \o loaded.messages]

\* The loop of load_and_process_files over the files not yet read: the frames
\* appended to all_dfs and the messages shown, in order.
load_files(files, all_dfs, shown) ==
    IF files = <<>> THEN [all_dfs |-> all_dfs, messages |-> shown]
    ELSE
        LET uploaded_file == Head(files)
            loaded ==
                IF endswith(uploaded_file.name, ext_xlsx) THEN load_xlsx(uploaded_file)
                ELSE IF endswith(uploaded_file.name, ext_csv) THEN load_csv(uploaded_file)
                ELSE [ok |-> FALSE, df |-> EmptyFrame,
                      messages |-> <<unsupported_warning(uploaded_file.name)>>]
            tagged == set_column(loaded.df, "Source",
                                 [i \in DOMAIN loaded.df.rows |-> Str(uploaded_file.name)])
        IN  load_files(Tail(files),
                       IF loaded.ok THEN Append(all_dfs, tagged) ELSE all_dfs,
                       shown \o loaded.messages)

\* pd.concat(all_dfs, ignore_index=True): the union of the columns, the rows
\* of each frame in order, a column a frame lacks filled with NaN.
RECURSIVE concat(_)
concat(all_dfs) ==
    IF all_dfs = <<>> THEN EmptyFrame
    ELSE
        LET rest == concat(Tail(all_dfs))
            first == Head(all_dfs)
            cols == first.columns \cup rest.columns
            widen(r) == [c \in cols |-> IF c \in DOMAIN r THEN r[c] ELSE NaN]
        IN  [columns |-> cols,
             rows |-> [i \in DOMAIN first.rows |-> widen(first.rows[i])]
                         \o [i \in DOMAIN rest.rows |-> widen(rest.rows[i])]]

Digit == {"0", "1", "2", "3", "4", "5", "6", "7", "8", "9"}

\* pd.to_datetime(errors="coerce") on one cell: a date is kept, anything
\* else becomes NaT.  Of the text forms only YYYY-MM-DD is taken as a date.
to_datetime(x) ==
    IF x.k = "date" THEN x
    ELSE IF /\ x.k = "str"
       /\ Len(x.s) = 10
       /\ \A i \in 1..10 : IF i \in {5, 8} THEN x.s[i] = "-" ELSE x.s[i] \in Digit
    THEN [k |-> "date", s |-> x.s, n |-> 0]
    ELSE NaN

\* .dt.to_period("M").astype(str): "YYYY-MM", and "NaT" for a missing date.
month_of(x) == IF x.k = "date" THEN Str(SubSeq(x.s, 1, 7)) ELSE Str(x_NaT)

tfr_markers == {t_TFR_IN, t_TFR_OUT}

\* Mutant: an amount of zero counts as income (x >= 0).
type_classification_zero_income(x) == IF x.k = "num" /\ x.n >= 0 THEN "Income" ELSE "Expense"

\* The lambda of the Type Classification column; x > 0 is False for NaN.
type_classification(x) == IF x.k = "num" /\ x.n > 0 THEN "Income" ELSE "Expense"

\* The lambda of the Category column.
category_of(row) ==
    categorize(Str(pystr(row_get(row, "Description"))),
               Str(pystr(row_get(row, "Memo"))),
               Str(pystr(row_get(row, "Tran Type"))))

\* process_data: the transfer rows are dropped, then each row that is left
\* gets its Date parsed and its Month, Category and Type Classification
\* derived.  raised is TRUE when the comparison of a text amount with 0 in
\* the last step raises TypeError, and then nothing is returned.
process_data(combined) ==
    LET kept ==
            IF "Tran Type" \in combined.columns
            THEN SelectSeq(combined.rows,
                           LAMBDA r : ~(r["Tran Type"].k = "str" /\ r["Tran Type"].s \in tfr_markers))
            ELSE combined.rows
        columns == combined.columns \cup {"Month", "Category", "Type Classification"}
        derived(r) ==
            [c \in columns |->
                CASE c = "Date" -> to_datetime(r["Date"])
                  [] c = "Month" -> month_of(to_datetime(r["Date"]))
                  [] c = "Category" -> Label(category_of(r))
                  [] c = "Type Classification" -> Label(type_classification(r["Amount"]))
                  [] OTHER -> r[c]]
    IN  IF \E i \in DOMAIN kept : kept[i]["Amount"].k \notin {"num", "nan"}
        THEN [raised |-> TRUE, df |-> EmptyFrame]
        ELSE [raised |-> FALSE,
              df |-> [columns |-> columns, rows |-> [i \in DOMAIN kept |-> derived(kept[i])]]]

(***************************************************************************)
(* The table the page shows and the user edits.                            *)
(***************************************************************************)
display_columns ==
    <<"Date", "Description", "Memo", "Amount", "Tran Type", "Category", "Source">>

\* df[available_columns]
select_columns(frame, cols) ==
    [columns |-> cols,
     rows |-> [i \in DOMAIN frame.rows |-> [c \in cols |-> frame.rows[i][c]]]]

\* The widget state of st.data_editor before any edit.
no_edits == [edited_rows |-> <<>>, deleted_rows |-> {}]

\* The positions of 1..n outside the set gone, in order.
RECURSIVE remaining(_, _)
remaining(n, gone) ==
    IF n = 0 THEN <<>>
    ELSE IF n \in gone THEN remaining(n - 1, gone)
    ELSE Append(remaining(n - 1, gone), n)

\* st.data_editor: the frame with the edited cells replaced and the deleted
\* rows left out.  Only the Category column is edited here.
data_editor(frame, state) ==
    LET edited(i) ==
            IF i \in DOMAIN state.edited_rows
            THEN [frame.rows[i] EXCEPT !["Category"] = Label(state.edited_rows[i])]
            ELSE frame.rows[i]
        left == remaining(Len(frame.rows), state.deleted_rows)
    IN  [columns |-> frame.columns, rows |-> [k \in DOMAIN left |-> edited(left[k])]]

\* Lines 276-315: the table is shown with the user's edits applied, and df is
\* rebound to a copy of the edited table with its Month derived again.
edited_copy(frame, state) ==
    LET available_columns == {c \in frame.columns : \E k \in DOMAIN display_columns : display_columns[k] = c}
        table == data_editor(select_columns(frame, available_columns), state)
    IN  set_column(table, "Month",
                   [i \in DOMAIN table.rows |-> month_of(to_datetime(table.rows[i]["Date"]))])

(***************************************************************************)
(* The Google Sheets export.  Frames are objects here: a store binds the   *)
(* names of the handler to objects, so that a copy and an alias differ.    *)
(***************************************************************************)
\* The store in which df alone is bound.
store_of(frame) == [ref |-> ("df" :> 1), obj |-> <<frame>>]

frame_of(store, name) == store.obj[store.ref[name]]

\* The rows whose Amount compares as asked with 0; NaN compares False.
sign_mask(rows, sign) ==
    SelectSeq(rows, LAMBDA r : r["Amount"].k = "num" /\ r["Amount"].n * sign > 0)

\* Mutant: no copy is made; the rows are dropped from the source in place and
\* the name is bound to the source itself.
select_in_place(store, name, source, sign) ==
    [ref |-> (name :> store.ref[source]) @@ store.ref,
     obj |-> [store.obj EXCEPT ![store.ref[source]].rows = sign_mask(@, sign)]]

\* name = source[source["Amount"] * sign > 0].copy(): the name is bound to
\* a new object holding the selected rows.
select_copy(store, name, source, sign) ==
    [ref |-> (name :> Len(store.obj) + 1) @@ store.ref,
     obj |-> Append(store.obj, [frame_of(store, source) EXCEPT !.rows = sign_mask(@, sign)])]

\* abs()
abs(n) == IF n < 0 THEN -n ELSE n

\* Mutant: the amounts of the copy are left negative.
assign_abs_skipped(store, name) == store

\* name["Amount"] = name["Amount"].abs(): the object the name is bound to
\* is changed.
assign_abs(store, name) ==
    [store EXCEPT !.obj[store.ref[name]].rows =
        [i \in DOMAIN @ |-> [@[i] EXCEPT !["Amount"] =
            IF @.k = "num" THEN Num(abs(@.n)) ELSE @]]]

\* frame["Amount"].sum(), in cents; NaN is skipped.
RECURSIVE sum_amounts(_)
sum_amounts(rows) ==
    IF rows = <<>> THEN 0
    ELSE (IF Head(rows)["Amount"].k = "num" THEN Head(rows)["Amount"].n ELSE 0)
            + sum_amounts(Tail(rows))

\* frame.groupby("Category")["Amount"].sum().to_dict()
groupby_sum(frame) ==
    [cat \in {frame.rows[i]["Category"].name : i \in DOMAIN frame.rows} |->
        sum_amounts(SelectSeq(frame.rows, LAMBDA r : r["Category"].name = cat))]

\* Lines 390-399: the summary, and the store it leaves.
prepare_summary(store) ==
    LET s1 == select_copy(store, "expenses_df", "df", -1)
        s2 == select_copy(s1, "income_df", "df", 1)
        s3 == assign_abs(s2, "expenses_df")
    IN  [store |-> s3,
         total_expenses |-> abs(sum_amounts(frame_of(s2, "expenses_df").rows)),
         total_income |-> sum_amounts(frame_of(s2, "income_df").rows),
         category_totals |-> groupby_sum(frame_of(s3, "expenses_df"))]

\* The summary where the handler did not get as far as computing it.
no_summary == [total_expenses |-> 0, total_income |-> 0, category_totals |-> <<>>]

\* The metrics before a table is shown.
no_metrics ==
    [total_expenses |-> 0, total_income |-> 0, num_months |-> 0, category_totals |-> <<>>,
     top_category_amount |-> 0]

\* display_summary_metrics: the totals, the number of months and the expense
\* of each category it shows, in cents.  Here the sums are taken by
\* category first and made positive after.
display_summary_metrics(frame) ==
    LET expenses_df == [frame EXCEPT !.rows = sign_mask(@, -1)]
        income_df == [frame EXCEPT !.rows = sign_mask(@, 1)]
        sums == groupby_sum(expenses_df)
        category_totals == [cat \in DOMAIN sums |-> abs(sums[cat])]
    IN  [total_expenses |-> abs(sum_amounts(expenses_df.rows)),
         total_income |-> sum_amounts(income_df.rows),
         num_months |-> Cardinality({frame.rows[i]["Month"] : i \in DOMAIN frame.rows}),
         category_totals |-> category_totals,
         top_category_amount |->
            IF expenses_df.rows = <<>> THEN 0
            ELSE CHOOSE a \in {category_totals[cat] : cat \in DOMAIN category_totals} :
                    \A cat \in DOMAIN category_totals : category_totals[cat] <= a]

\* The names of get_category_list as text.
category_text ==
    [Transport |-> <<"T", "r", "a", "n", "s", "p", "o", "r", "t">>,
     Groceries |-> <<"G", "r", "o", "c", "e", "r", "i", "e", "s">>,
     Insurance |-> <<"I", "n", "s", "u", "r", "a", "n", "c", "e">>,
     Investments |-> <<"I", "n", "v", "e", "s", "t", "m", "e", "n", "t", "s">>,
     Utilities |-> <<"U", "t", "i", "l", "i", "t", "i", "e", "s">>,
     Entertainment |-> <<"E", "n", "t", "e", "r", "t", "a", "i", "n", "m", "e", "n", "t">>,
     Dining |-> <<"D", "i", "n", "i", "n", "g">>,
     Pet |-> <<"P", "e", "t">>,
     Healthcare |-> <<"H", "e", "a", "l", "t", "h", "c", "a", "r", "e">>,
     Shopping |-> <<"S", "h", "o", "p", "p", "i", "n", "g">>,
     Subscriptions |-> <<"S", "u", "b", "s", "c", "r", "i", "p", "t", "i", "o", "n", "s">>,
     Education |-> <<"E", "d", "u", "c", "a", "t", "i", "o", "n">>,
     Holiday |-> <<"H", "o", "l", "i", "d", "a", "y">>,
     Income |-> <<"I", "n", "c", "o", "m", "e">>,
     Mortgage |-> <<"M", "o", "r", "t", "g", "a", "g", "e">>,
     Other |-> <<"O", "t", "h", "e", "r">>]

txt_total_expenses == <<"t", "o", "t", "a", "l", " ", "e", "x", "p", "e", "n", "s", "e", "s">>

txt_total_income == <<"t", "o", "t", "a", "l", " ", "i", "n", "c", "o", "m", "e">>

\* str.strip()
RECURSIVE strip(_)
strip(s) ==
    IF s = <<>> THEN s
    ELSE IF Head(s) = " " THEN strip(Tail(s))
    ELSE IF s[Len(s)] = " " THEN strip(SubSeq(s, 1, Len(s) - 1))
    ELSE s

\* Lines 413-429: one cell for each header of the sheet, in cents.
build_row_data(headers, total_expenses, total_income, category_totals) ==
    [h \in DOMAIN headers |->
        LET header_lower == strip(lower(headers[h]))
            matching == {cat \in DOMAIN category_totals : lower(category_text[cat]) = header_lower}
        IN  IF header_lower = txt_total_expenses THEN total_expenses
            ELSE IF header_lower = txt_total_income THEN total_income
            ELSE IF matching # {} THEN category_totals[CHOOSE cat \in matching : TRUE]
            ELSE 0]

\* The calls the handler makes to its collaborators, in order.
export_steps ==
    <<"credentials", "open_by_url", "worksheet", "row_values", "get_all_values", "update">>

step_index(step) == CHOOSE i \in DOMAIN export_steps : export_steps[i] = step

\* No call fails.
no_failure == [step |-> "none", raises |-> ""]

\* The call at the step returned: the failure, if any, is later.
passed(fails, step) == fails.step = "none" \/ step_index(fails.step) > step_index(step)

\* Whether `except Exception` catches the class: StopException, which
\* st.stop() raises, derives from BaseException and is not caught.
is_Exception(class) == class \in {"JSONDecodeError", "APIError", "WorksheetNotFound"}

\* st.error("Sheet named 'Joint Finance' not found. Please create it first.")
not_found_error == [level |-> "error", text |-> "worksheet not found", row |-> 0]

\* st.error(f"Error exporting to Google Sheets: {str(e)}")
export_error(class) == [level |-> "error", text |-> class, row |-> 0]

\* st.success(f"Exported to row {next_row} in 'Joint Finance' sheet!")
export_success(next_row) == [level |-> "success", text |-> "exported", row |-> next_row]

\* The handler of the Export button on the frame df is bound to: fails is
\* the call that fails and the exception it raises, headers the first row
\* of the sheet, all_values the number of rows the sheet holds.
export_handler(frame, fails, headers, all_values) ==
    LET prepared == prepare_summary(store_of(frame))
        computed == passed(fails, "open_by_url")
        not_found == fails.step = "worksheet" /\ fails.raises = "WorksheetNotFound"
        \* what leaves the body of the outer try
        escaping ==
            IF fails.step = "none" THEN ""
            ELSE IF not_found THEN "StopException"
            ELSE fails.raises
        row_data ==
            build_row_data(headers, prepared.total_expenses, prepared.total_income,
                           prepared.category_totals)
        next_row == all_values + 1
    IN  [df |-> IF computed THEN frame_of(prepared.store, "df") ELSE frame,
         summary |->
            IF computed
            THEN [total_expenses |-> prepared.total_expenses,
                  total_income |-> prepared.total_income,
                  category_totals |-> prepared.category_totals]
            ELSE no_summary,
         written |-> IF escaping = "" THEN <<[row |-> next_row, values |-> row_data]>> ELSE <<>>,
         messages |->
            (IF not_found THEN <<not_found_error>> ELSE <<>>)
                \o (IF escaping = "" THEN <<export_success(next_row)>>
                    ELSE IF is_Exception(escaping) THEN <<export_error(escaping)>>
                    ELSE <<>>),
         outcome |->
            IF escaping = "" THEN "success"
            ELSE IF is_Exception(escaping) THEN "error"
            ELSE IF escaping = "StopException" THEN "stopped"
            ELSE "uncaught"]

(***************************************************************************)
(* Bounds of the model.                                                    *)
(***************************************************************************)
\* Words in the description and the memo of one classifier call, together.
MaxWords == 2

\* Files in one upload.
MaxFiles == 2

\* Rows in one upload, over all its files.
MaxRows == 2

\* Rows of the one statement uploaded before an export.
MaxExportRows == 2

\* Edits the user makes to the table shown.
MaxEdits == 1

\* Rows the sheet holds when the export reads it, its header row included.
MaxSheetRows == 2

(***************************************************************************)
(* State.                                                                  *)
(***************************************************************************)
VARIABLES
    arg_details,            \* categorize_transaction: argument details
    arg_particulars,        \* categorize_transaction: argument particulars
    arg_transaction_type,   \* categorize_transaction: argument transaction_type
    returned,           \* its return value, "" before the call returns
    uploaded_files,     \* the files of st.file_uploader, in upload order
    pc,                 \* where the script run is
    messages,           \* the st.error / st.warning messages shown, in order
    combined_df,        \* load_and_process_files: the merged batch
    outcome,            \* load_and_process_files: "" while it runs, then
                        \* "none" (returned None), "returned" or "raised"
    df,                 \* the frame it returned: the transaction set
    editor_state,       \* the edits st.data_editor holds
    edited_df,          \* the frame df is rebound to at line 313: the edited
                        \* copy, which the rest of the script reads
    metrics,            \* what display_summary_metrics shows of it
    export_outcome,     \* the export handler: "" before it runs, then "success",
                        \* "error", "stopped" or "uncaught"
    export_messages,    \* the messages the handler shows, in order
    summary,            \* total_expenses, total_income and category_totals
    written             \* the finance_sheet.update call made, if any

classifier_vars == <<arg_details, arg_particulars, arg_transaction_type, returned>>

pipeline_vars == <<uploaded_files, pc, messages, combined_df, outcome, df>>

table_vars == <<editor_state, edited_df, metrics>>

export_vars == <<export_outcome, export_messages, summary, written>>

vars == <<classifier_vars, pipeline_vars, table_vars, export_vars>>

NoCall ==
    /\ arg_details = None
    /\ arg_particulars = None
    /\ arg_transaction_type = None
    /\ returned = ""

NoUpload ==
    /\ uploaded_files = <<>>
    /\ pc = "idle"
    /\ messages = <<>>
    /\ combined_df = EmptyFrame
    /\ outcome = ""
    /\ df = EmptyFrame
    /\ editor_state = no_edits
    /\ edited_df = EmptyFrame
    /\ metrics = no_metrics
    /\ export_outcome = ""
    /\ export_messages = <<>>
    /\ summary = no_summary
    /\ written = <<>>

(***************************************************************************)
(* The classifier on its own: Init draws the three arguments, the one      *)
(* action is the call.                                                     *)
(***************************************************************************)
Vocabulary ==
    {w_Uber, w_Eats, w_BP, w_Z, w_Energy, w_BOOK, w_Joint, w_Random, w_Countdown, w_Netflix}

TypeTags ==
    {<<>>, t_deposit, t_Deposit, t_DEPOSIT, t_loan_payment, t_Loan_Payment, t_LOAN_PAYMENT,
     t_Payment, t_Deposits, t_TFR_IN}

\* " ".join(ws)
RECURSIVE join(_)
join(ws) ==
    IF ws = <<>> THEN <<>>
    ELSE IF Len(ws) = 1 THEN ws[1]
    ELSE ws[1] \o <<" ">> \o join(Tail(ws))

\* The texts of exactly n words of the vocabulary.
Phrases(n) == {join(ws) : ws \in [1..n -> Vocabulary]}

InitClassify ==
    /\ \E nd \in 0..MaxWords : \E np \in 0..(MaxWords - nd) :
          /\ arg_details \in {Str(t) : t \in Phrases(nd)} \cup (IF nd = 0 THEN {None} ELSE {})
          /\ arg_particulars \in {Str(t) : t \in Phrases(np)} \cup (IF np = 0 THEN {None} ELSE {})
    /\ arg_transaction_type \in {Str(t) : t \in TypeTags} \cup {None}
    /\ returned = ""
    /\ NoUpload

Categorize ==
    /\ returned = ""
    /\ returned' = categorize_transaction(arg_details, arg_particulars, arg_transaction_type)
    /\ UNCHANGED <<arg_details, arg_particulars, arg_transaction_type>>
    /\ UNCHANGED <<pipeline_vars, table_vars, export_vars>>

NextClassify == Categorize

SpecClassify == InitClassify /\ [][NextClassify]_vars

(***************************************************************************)
(* Sample statements: a name, the columns of the header and the rows.      *)
(***************************************************************************)
xlsx_columns == {"Transaction Date", "Details", "Particulars", "Amount", "Type"}

csv_columns == {"Date", "Payee", "Memo", "Amount", "Tran Type"}

Statement(name, columns, rows) == [name |-> name, columns |-> columns, rows |-> rows]

\* Whether the last row of the file has no cell under any of its columns.
EndsBlank(f) ==
    /\ f.rows # <<>>
    /\ \A c \in f.columns : RowPool[f.rows[Len(f.rows)]][column_field[c]].k = "nan"

\* The statements that pass the column check, with the given rows.  A sheet
\* ends at its last row that holds anything, so an xlsx never ends on an empty row.
Accepted(rows) ==
    {f \in {Statement(n_jan_xlsx, xlsx_columns, rows),
            Statement(n_old_xlsx, {"Transaction Date", "Details", "Amount"}, rows)} :
        ~EndsBlank(f)}
        \cup {Statement(n_mar_csv, csv_columns, rows)}

\* The statements that do not: an xlsx without Amount, a csv without Date and
\* Payee, and a file whose name ends in neither ".xlsx" nor ".csv".
Rejected ==
    {Statement(n_feb_xlsx, xlsx_columns \ {"Amount"}, <<"grocery">>),
     Statement(n_bad_csv, {"Memo", "Amount", "Tran Type"}, <<"grocery">>),
     Statement(n_dec_XLSX, xlsx_columns, <<"grocery">>)}

\* The files of exactly n rows.
FilesOf(n) ==
    UNION {Accepted(rows) : rows \in [1..n -> DOMAIN RowPool]} \cup (IF n = 1 THEN Rejected ELSE {})

\* sum(len(f.rows) for f in files)
RECURSIVE RowsIn(_)
RowsIn(files) == IF files = <<>> THEN 0 ELSE Len(Head(files).rows) + RowsIn(Tail(files))

(***************************************************************************)
(* The script.  Streamlit runs it from the top each time the uploader      *)
(* changes: with files uploaded it calls load_and_process_files, modelled  *)
(* in two steps, the loop with the merge, and process_data.                *)
(***************************************************************************)
Init ==
    /\ NoCall
    /\ NoUpload

\* The handler has not run in this run of the script.
NoExport ==
    /\ export_outcome' = ""
    /\ export_messages' = <<>>
    /\ summary' = no_summary
    /\ written' = <<>>

\* The user adds a file to st.file_uploader; the script starts over, and the
\* editor, whose data changes, forgets its edits.
UploadWithin(max_files, max_rows) ==
    /\ pc \in {"idle", "done", "stopped"}
    /\ Len(uploaded_files) < max_files
    /\ \E n \in 0..(max_rows - RowsIn(uploaded_files)) : \E file \in FilesOf(n) :
          uploaded_files' = Append(uploaded_files, file)
    /\ pc' = "uploaded"
    /\ messages' = <<>>
    /\ combined_df' = EmptyFrame
    /\ outcome' = ""
    /\ df' = EmptyFrame
    /\ editor_state' = no_edits
    /\ edited_df' = EmptyFrame
    /\ metrics' = no_metrics
    /\ NoExport
    /\ UNCHANGED classifier_vars

Upload == UploadWithin(MaxFiles, MaxRows)

\* load_and_process_files up to pd.concat.
LoadFiles ==
    /\ pc = "uploaded"
    /\ LET loaded == load_files(uploaded_files, <<>>, <<>>)
       IN  /\ messages' = messages \o loaded.messages
           /\ IF loaded.all_dfs = <<>>
              THEN /\ outcome' = "none"
                   /\ pc' = "done"
                   /\ combined_df' = combined_df
              ELSE /\ combined_df' = concat(loaded.all_dfs)
                   /\ pc' = "combined"
                   /\ outcome' = outcome
    /\ UNCHANGED <<uploaded_files, df>>
    /\ UNCHANGED <<classifier_vars, table_vars, export_vars>>

\* return process_data(combined_df); an exception it raises ends the run.
ProcessData ==
    /\ pc = "combined"
    /\ LET result == process_data(combined_df)
       IN  /\ outcome' = IF result.raised THEN "raised" ELSE "returned"
           /\ df' = result.df
           /\ pc' = IF result.raised THEN "done" ELSE "processed"
    /\ UNCHANGED <<uploaded_files, messages, combined_df>>
    /\ UNCHANGED <<classifier_vars, table_vars, export_vars>>

\* Lines 273-318: the table is shown, df rebound to the edited copy and the
\* summary metrics drawn from it.
ShowTable ==
    /\ pc = "processed"
    /\ edited_df' = edited_copy(df, editor_state)
    /\ metrics' = display_summary_metrics(edited_df')
    /\ pc' = "done"
    /\ UNCHANGED <<uploaded_files, messages, combined_df, outcome, df, editor_state>>
    /\ UNCHANGED <<classifier_vars, export_vars>>

Next == Upload \/ LoadFiles \/ ProcessData \/ ShowTable

Spec == Init /\ [][Next]_vars

(***************************************************************************)
(* The page once a statement is loaded: the user edits the table and       *)
(* clicks Export.  Each of these makes Streamlit run the script again; the *)
(* run loads the same files into the same df, so the actions start where   *)
(* the run first differs.                                                  *)
(***************************************************************************)
\* The categories the user picks from in the samples, of get_category_list.
EditChoices == {"Groceries", "Other"}

TableShown == pc \in {"done", "stopped"} /\ outcome = "returned"

Edits == Cardinality(DOMAIN editor_state.edited_rows) + Cardinality(editor_state.deleted_rows)

\* The user picks another category for a row of the table.
EditCategory ==
    /\ TableShown
    /\ \E i \in DOMAIN df.rows \ editor_state.deleted_rows : \E choice \in EditChoices :
          /\ i \in DOMAIN editor_state.edited_rows \/ Edits < MaxEdits
          /\ editor_state' =
                [editor_state EXCEPT !.edited_rows =
                    [k \in DOMAIN @ \cup {i} |-> IF k = i THEN choice ELSE @[k]]]
    /\ edited_df' = edited_copy(df, editor_state')
    /\ metrics' = display_summary_metrics(edited_df')
    /\ pc' = "done"
    /\ NoExport
    /\ UNCHANGED <<uploaded_files, messages, combined_df, outcome, df>>
    /\ UNCHANGED classifier_vars

\* The user deletes a row of the table.
DeleteRow ==
    /\ TableShown
    /\ Edits < MaxEdits
    /\ \E i \in DOMAIN df.rows \ editor_state.deleted_rows :
          editor_state' = [editor_state EXCEPT !.deleted_rows = @ \cup {i}]
    /\ edited_df' = edited_copy(df, editor_state')
    /\ metrics' = display_summary_metrics(edited_df')
    /\ pc' = "done"
    /\ NoExport
    /\ UNCHANGED <<uploaded_files, messages, combined_df, outcome, df>>
    /\ UNCHANGED classifier_vars

\* The first row of the sheet, in the samples.
SheetHeaders ==
    {<<<<"T", "o", "t", "a", "l", " ", "E", "x", "p", "e", "n", "s", "e", "s">>, <<" ", "t", "o", "t", "a", "l", " ", "i", "n", "c", "o", "m", "e", " ">>, <<"G", "R", "O", "C", "E", "R", "I", "E", "S">>, <<"R", "e", "n", "t">>>>}

\* What a call to Google can raise.  The worksheet lookup raises
\* WorksheetNotFound when the sheet has no "Joint Finance" tab.
Failures ==
    {no_failure, [step |-> "credentials", raises |-> "JSONDecodeError"],
     [step |-> "worksheet", raises |-> "WorksheetNotFound"]}
        \cup {[step |-> export_steps[k], raises |-> "APIError"] : k \in 2..Len(export_steps)}

\* The user clicks "Export to Google Sheets": lines 374-442.  Everything
\* above the handler is drawn again as before; st.stop() ends the run.  A
\* click after an export starts from the same table as the first.
Export ==
    /\ TableShown
    /\ export_outcome = ""
    /\ \E fails \in Failures : \E headers \in SheetHeaders : \E all_values \in 1..MaxSheetRows :
          LET result == export_handler(edited_df, fails, headers, all_values)
          IN  /\ edited_df' = result.df
              /\ export_outcome' = result.outcome
              /\ export_messages' = result.messages
              /\ summary' = result.summary
              /\ written' = result.written
              /\ pc' = IF result.outcome = "stopped" THEN "stopped" ELSE "done"
    /\ UNCHANGED <<uploaded_files, messages, combined_df, outcome, df, editor_state, metrics>>
    /\ UNCHANGED classifier_vars

\* One statement is uploaded.
UploadStatement == UploadWithin(1, MaxExportRows)

NextExport ==
    UploadStatement \/ LoadFiles \/ ProcessData \/ ShowTable \/ EditCategory \/ DeleteRow
        \/ Export

SpecExport == Init /\ [][NextExport]_vars

(***************************************************************************)
(* Claims about the classifier, under SpecClassify.                        *)
(***************************************************************************)
Called == returned # ""

\* The type argument equals the tag, compared without regard to case.
TypeIs(tag) == arg_transaction_type.k = "str" /\ lower(arg_transaction_type.s) = tag

\* An argument as text, None being the empty text.
ArgText(x) == IF x.k = "str" THEN x.s ELSE <<>>

\* The lower-cased text description + " " + memo of the call.
CallText == lower(ArgText(arg_details) \o <<" ">> \o ArgText(arg_particulars))

\* The positions in the table of the categories with a keyword in the text.
MatchingCategories(text) ==
    {c \in DOMAIN CATEGORIES :
        \E k \in DOMAIN CATEGORIES[c].keywords : Contains(text, CATEGORIES[c].keywords[k])}

\* C1: a call whose transaction_type is "deposit" in any letter case returns
\* "Income", whatever the description and the memo hold.
C1_DepositIsIncome == Called /\ TypeIs(txt_deposit) => returned = "Income"

C1_Witness ==
    /\ returned = "Income"
    /\ arg_transaction_type = Str(t_DEPOSIT)
    /\ MatchingCategories(CallText) # {}

\* C2: a call whose transaction_type is "loan payment" in any letter case
\* returns "Mortgage", also when the description or the memo holds a keyword
\* of the rule table.
C2_LoanPaymentIsMortgage == Called /\ TypeIs(txt_loan_payment) => returned = "Mortgage"

C2_Witness ==
    /\ returned = "Mortgage"
    /\ arg_transaction_type = Str(t_Loan_Payment)
    /\ MatchingCategories(CallText) # {}

\* C3: with a type that is neither "deposit" nor "loan payment", a memo that
\* holds "joint" in any letter case makes the call return "Income".
C3_JointMemoIsIncome ==
    /\ Called
    /\ ~TypeIs(txt_deposit)
    /\ ~TypeIs(txt_loan_payment)
    /\ Contains(lower(ArgText(arg_particulars)), lower(w_Joint))
    => returned = "Income"

\* C4: when no type override applies and some category has a keyword in the
\* lower-cased text description + " " + memo, the call returns the first
\* such category in the key order of CATEGORIES.
C4_FirstKeyWins ==
    /\ Called
    /\ ~TypeIs(txt_deposit)
    /\ ~TypeIs(txt_loan_payment)
    /\ MatchingCategories(CallText) # {}
    => \E c \in MatchingCategories(CallText) :
          /\ \A other \in MatchingCategories(CallText) : c <= other
          /\ returned = CATEGORIES[c].category

\* "Uber Eats" holds Transport's "uber" and Dining's longer "uber eats".
C4_Witness ==
    /\ returned = "Transport"
    /\ arg_details = Str(x_Uber_Eats)
    /\ arg_transaction_type = Str(t_Payment)
    /\ Cardinality(MatchingCategories(CallText)) = 2

(***************************************************************************)
(* Claims about the ingestion pipeline, under Spec.                        *)
(***************************************************************************)
Returned == outcome = "returned"

\* A cell of a row of a frame, a column the frame lacks being null.
Field(r, c) == IF c \in DOMAIN r THEN r[c] ELSE NaN

\* A cell as text, null being the empty text.
CellText(x) == IF x.k = "str" THEN x.s ELSE <<>>

PoolTexts(field) == {CellText(RowPool[r][field]) : r \in DOMAIN RowPool} \cup {<<>>}

\* Whether no keyword of the table is in lower(description + " " + memo),
\* for the texts of the sample rows.
KeywordFree ==
    [d \in PoolTexts("description") |->
        [m \in PoolTexts("memo") |-> MatchingCategories(lower(d \o <<" ">> \o m)) = {}]]

RowKeywordFree(r) ==
    KeywordFree[CellText(Field(r, "Description"))][CellText(Field(r, "Memo"))]

\* A type override applies to the row: its type is "deposit" or "loan
\* payment" in any letter case.
RowOverride(r) ==
    /\ Field(r, "Tran Type").k = "str"
    /\ lower(Field(r, "Tran Type").s) \in {txt_deposit, txt_loan_payment}

\* C5: every row of the set process_data returns has a category that is not
\* null and is exactly one element of get_category_list, and the category
\* is "Other" exactly when no type override applies to the row and no
\* keyword of the table is in its lower-cased description + " " + memo.
C5_CategoryIsTotal ==
    Returned =>
        \A i \in DOMAIN df.rows :
            LET r == df.rows[i]
                category == Field(r, "Category")
            IN  /\ category.k = "label"
                /\ Cardinality({j \in DOMAIN get_category_list :
                                   get_category_list[j] = category.name}) = 1
                /\ category.name = "Other" <=> (~RowOverride(r) /\ RowKeywordFree(r))

\* A returned set with an unmatched description next to a matched one.
C5_Witness ==
    /\ Returned
    /\ \E i, j \in DOMAIN df.rows :
          /\ df.rows[i]["Category"] = Label("Other")
          /\ df.rows[i]["Description"] = Str(x_Random_Merchant_XYZ)
          /\ df.rows[j]["Category"] = Label("Groceries")
          /\ df.rows[j]["Description"] = Str(x_Countdown_Queen_St)

\* The rows of the uploaded files, as (file, row) positions.
UploadedRows ==
    {p \in (DOMAIN uploaded_files) \X (1..MaxRows) : p[2] <= Len(uploaded_files[p[1]].rows)}

UploadedCells(p) == cells_of(uploaded_files[p[1]])[p[2]]

\* A row of a file with no cell under any column of the file.
BlankInFile(p) == \A c \in DOMAIN UploadedCells(p) : UploadedCells(p)[c].k = "nan"

\* A row of a file whose transaction type is TFR IN or TFR OUT.
TransferInFile(p) ==
    \E c \in DOMAIN UploadedCells(p) :
        /\ column_field[c] = "type"
        /\ UploadedCells(p)[c].k = "str"
        /\ UploadedCells(p)[c].s \in {t_TFR_IN, t_TFR_OUT}

\* The columns process_data and the loader add to a row.
AddedColumns == {"Source", "Month", "Category", "Type Classification"}

\* A row of a frame with nothing under any column that came from a file.
BlankRow(r) == \A c \in DOMAIN r \ AddedColumns : r[c].k = "nan"

TransferRow(r) ==
    /\ Field(r, "Tran Type").k = "str"
    /\ Field(r, "Tran Type").s \in {t_TFR_IN, t_TFR_OUT}

\* C6: for a batch of accepted files, xlsx or csv, the set process_data
\* returns has no row of type TFR IN or TFR OUT and no fully blank row, and
\* as many rows as the files hold less their transfer rows and their fully
\* blank rows.
C6_TransfersAndBlanksDropped ==
    (Returned /\ messages = <<>>) =>
        /\ \A i \in DOMAIN df.rows : ~TransferRow(df.rows[i]) /\ ~BlankRow(df.rows[i])
        /\ Len(df.rows) = Cardinality({p \in UploadedRows : ~TransferInFile(p) /\ ~BlankInFile(p)})

\* C7: no row of the set process_data returns has a null amount.
C7_NoNullAmount ==
    Returned => \A i \in DOMAIN df.rows : Field(df.rows[i], "Amount").k # "nan"

\* C8: every row of the set process_data returns is classified "Income"
\* when its amount is above zero and "Expense" otherwise, an amount of
\* exactly zero included, whatever its category.
C8_ClassificationBySign ==
    Returned =>
        \A i \in DOMAIN df.rows :
            LET r == df.rows[i]
                positive == Field(r, "Amount").k = "num" /\ Field(r, "Amount").n > 0
            IN  Field(r, "Type Classification") = Label(IF positive THEN "Income" ELSE "Expense")

\* A zero amount of category Income classified Expense, and a positive one
\* classified Income.
C8_Witness ==
    /\ Returned
    /\ \E i, j \in DOMAIN df.rows :
          /\ df.rows[i]["Amount"] = Num(0)
          /\ df.rows[i]["Category"] = Label("Income")
          /\ df.rows[i]["Type Classification"] = Label("Expense")
          /\ df.rows[j]["Amount"].n > 0
          /\ df.rows[j]["Type Classification"] = Label("Income")

\* The required columns of a file's shape that the file lacks; a file that
\* is of neither shape has no shape to lack a column of.
Lacking(f) ==
    IF endswith(f.name, ext_xlsx)
    THEN SelectSeq(<<"Transaction Date", "Details", "Amount">>, LAMBDA c : c \notin f.columns)
    ELSE IF endswith(f.name, ext_csv)
    THEN SelectSeq(<<"Date", "Payee", "Amount">>, LAMBDA c : c \notin f.columns)
    ELSE <<>>

Valid(f) == (endswith(f.name, ext_xlsx) \/ endswith(f.name, ext_csv)) /\ Lacking(f) = <<>>

\* The rows of a file that are not blank, by canonical field and file name.
RECURSIVE Contribution(_)
Contribution(files) ==
    IF files = <<>> THEN <<>>
    ELSE
        LET f == Head(files)
            row(i) ==
                [fd \in {"date", "description", "memo", "type"} |->
                    IF \E c \in f.columns : column_field[c] = fd
                    THEN RowPool[f.rows[i]][fd] ELSE NaN] @@ ("source" :> Str(f.name))
            all == [i \in DOMAIN f.rows |-> row(i)]
            holds(i) == \E c \in f.columns : RowPool[f.rows[i]][column_field[c]].k # "nan"
            kept == {i \in DOMAIN f.rows : holds(i)}
            nth(k) == CHOOSE i \in kept : Cardinality({j \in kept : j < i}) = k - 1
        IN  (IF Valid(f) THEN [k \in 1..Cardinality(kept) |-> all[nth(k)]] ELSE <<>>)
                \o Contribution(Tail(files))

\* The rows of the merged batch that are not blank, in the same form.
Merged ==
    LET kept == SelectSeq(combined_df.rows, LAMBDA r : ~BlankRow(r))
    IN  [k \in DOMAIN kept |->
            ("date" :> Field(kept[k], "Date")) @@ ("description" :> Field(kept[k], "Description"))
                @@ ("memo" :> Field(kept[k], "Memo")) @@ ("type" :> Field(kept[k], "Tran Type"))
                @@ ("source" :> Field(kept[k], "Source"))]

Loaded == pc \in {"combined", "done"}

\* C9: for any sequence of uploaded files, a file that lacks a required
\* column of its shape gives no row to the merged batch and a diagnostic
\* that names the file and the columns it lacks, every other valid file of
\* the upload gives all of its rows, and the batch is not aborted: it is
\* merged whenever a valid file was uploaded.
C9_RejectedFileIsSkipped ==
    Loaded =>
        /\ \A i \in DOMAIN uploaded_files :
              Lacking(uploaded_files[i]) # <<>> =>
                  \E k \in DOMAIN messages :
                      /\ messages[k].level = "error"
                      /\ messages[k].file = uploaded_files[i].name
                      /\ messages[k].missing = Lacking(uploaded_files[i])
        /\ (\E i \in DOMAIN uploaded_files : Valid(uploaded_files[i])) =>
              (outcome # "none" /\ Merged = Contribution(uploaded_files))
        /\ (\A i \in DOMAIN uploaded_files : ~Valid(uploaded_files[i])) =>
              (outcome = "none" /\ combined_df.rows = <<>>)

\* A file without its Amount column uploaded before a valid statement: the
\* merged batch holds the rows of the statement only.
C9_Witness ==
    /\ pc = "combined"
    /\ Len(uploaded_files) = 2
    /\ Lacking(uploaded_files[1]) = <<"Amount">>
    /\ Valid(uploaded_files[2])
    /\ Len(messages) = 1
    /\ Len(combined_df.rows) = 1
    /\ combined_df.rows[1]["Source"] = Str(uploaded_files[2].name)

(***************************************************************************)
(* Claims about the export, under SpecExport.                              *)
(***************************************************************************)
\* The step in which the export handler runs.
ExportRan == export_outcome = "" /\ export_outcome' # ""

\* C10: the Google Sheets export, whether it succeeds or fails at the
\* credential load, the spreadsheet open, the worksheet lookup, the header
\* read or the cell write, leaves the transaction set in memory as it was,
\* the same rows with the same amounts and categories, and a failure is
\* caught and reported with an error message, never propagated.
C10_ExportKeepsTheSet ==
    [][ExportRan =>
          /\ edited_df' = edited_df
          /\ export_outcome' \in {"success", "error", "stopped"}
          /\ export_outcome' # "success" =>
                \E k \in DOMAIN export_messages' : export_messages'[k].level = "error"]_vars

\* An export that failed after the summary was built from a set with an
\* expense in it: the copy had its amounts made positive.
C10_Witness ==
    /\ export_outcome = "error"
    /\ export_messages = <<export_error("APIError")>>
    /\ summary.total_expenses > 0
    /\ \E cat \in DOMAIN summary.category_totals : summary.category_totals[cat] > 0
    /\ \E i \in DOMAIN edited_df.rows : edited_df.rows[i]["Amount"].n < 0
    /\ written = <<>>

\* The amount of a row of the set in memory, in cents; 0 for a null amount.
AmountAt(i) ==
    IF edited_df.rows[i]["Amount"].k = "num" THEN edited_df.rows[i]["Amount"].n ELSE 0

CategoryAt(i) == edited_df.rows[i]["Category"].name

\* The sum of the amounts of the rows at the positions in S.
RECURSIVE Total(_)
Total(S) ==
    IF S = {} THEN 0
    ELSE LET i == CHOOSE j \in S : TRUE IN AmountAt(i) + Total(S \ {i})

Negative == {i \in DOMAIN edited_df.rows : AmountAt(i) < 0}

Positive == {i \in DOMAIN edited_df.rows : AmountAt(i) > 0}

\* The sum of the values of a mapping over the keys in D.
RECURSIVE SumOfValues(_, _)
SumOfValues(f, D) ==
    IF D = {} THEN 0
    ELSE LET key == CHOOSE k \in D : TRUE IN f[key] + SumOfValues(f, D \ {key})

\* The handler ran and got as far as its summary.
SummaryBuilt ==
    \/ export_outcome \in {"success", "stopped"}
    \/ export_outcome = "error" /\ summary # no_summary

\* The two rows (Countdown Queen St, -45.20, Payment) and (Deposit, 2500.00),
\* as loaded and not edited.
ExampleRows ==
    /\ editor_state = no_edits
    /\ Len(edited_df.rows) = 2
    /\ Field(edited_df.rows[1], "Description") = Str(x_Countdown_Queen_St)
    /\ Field(edited_df.rows[1], "Amount") = Num(-4520)
    /\ Field(edited_df.rows[1], "Tran Type") = Str(t_Payment)
    /\ Field(edited_df.rows[2], "Tran Type") = Str(t_Deposit)
    /\ Field(edited_df.rows[2], "Amount") = Num(250000)

\* C11: for the transaction set in memory, edited by the user or not, the
\* export summary has total_expenses equal to the sum of the negative
\* amounts with its sign flipped, total_income equal to the sum of the
\* positive amounts, and a mapping that gives each category with an expense
\* the sum of the absolute values of its negative amounts, so that the
\* values of the mapping add up to total_expenses; the page shows the same
\* two totals.  The rows (Countdown Queen St, -45.20, Payment) and
\* (Deposit, 2500.00) get the categories Groceries and Income, with
\* total_expenses 45.20 and total_income 2500.00.
C11_SummaryTotals ==
    SummaryBuilt =>
        /\ summary.total_expenses = -Total(Negative)
        /\ summary.total_income = Total(Positive)
        /\ DOMAIN summary.category_totals = {CategoryAt(i) : i \in Negative}
        /\ \A cat \in DOMAIN summary.category_totals :
              summary.category_totals[cat] = -Total({i \in Negative : CategoryAt(i) = cat})
        /\ SumOfValues(summary.category_totals, DOMAIN summary.category_totals)
              = summary.total_expenses
        /\ metrics.total_expenses = summary.total_expenses
        /\ metrics.total_income = summary.total_income
        /\ ExampleRows =>
              /\ CategoryAt(1) = "Groceries"
              /\ CategoryAt(2) = "Income"
              /\ summary.total_expenses = 4520
              /\ summary.total_income = 250000

\* The two rows of the example exported: one expense under Groceries.
C11_Witness ==
    /\ export_outcome = "success"
    /\ ExampleRows
    /\ summary.total_expenses = 4520
    /\ summary.total_income = 250000
    /\ DOMAIN summary.category_totals = {"Groceries"}
    /\ summary.category_totals["Groceries"] = 4520

====
